---- MODULE Spec2Model ----
(***************************************************************************)
(* A model of capirca's aclgen driver (capirca/aclgen.py): Run, the pool   *)
(* of RenderFile tasks, RenderACL / FilesUpdated / SkipLines and           *)
(* WriteFiles, together with the Palo Alto backend as its unit tests       *)
(* (tests/lib/paloaltofw_test.py) and the design text describe it.         *)
(***************************************************************************)
EXTENDS Integers, Sequences, FiniteSets, TLC

(***************************************************************************)
(* Bounds of the model.                                                    *)
(***************************************************************************)
\* policy files that discovery may return
NumFiles == 2
\* largest value of the max_renderers flag
MaxRenderers == 2
\* longest text (in characters) drawn for the diff specification
MaxTextLen == 3

VARIABLES
  \* ---- Run (aclgen.py:534-619)
  pc,            \* position of the main process inside Run
  policy_file,   \* TRUE when the policy_file flag is given (single-file mode)
  shade_check,   \* the shade_check flag
  max_renderers, \* processes of the pool
  pols,          \* the list DescendRecursively returned (file ids, in order)
  results,       \* number of AsyncResult objects appended to results
  idx,           \* index of the loop the main process is in (collect, write)
  with_errors,   \* Run's with_errors
  task,          \* per policy file: the RenderFile call made for it
  write_files,   \* the manager.list() proxy: sequence of (output_file, acl_text)
  disk,          \* output files the run has opened or written: path -> content
  touched,       \* paths _WriteFile has opened for writing
  \* ---- FilesUpdated / RenderACL on drawn texts
  d_conf,        \* content of the output file as FilesUpdated reads it
  d_new,         \* acl_text handed to RenderACL
  d_list,        \* write_files of that call
  d_disk,        \* the output tree: path -> content
  d_touched,     \* paths _WriteFile has opened for writing
  d_pc,          \* position: "render", "write", "done"
  d_run,         \* which Run this is: the first or the second on the same input
  \* ---- the Palo Alto generator: PaloAltoFW(pol, exp_info), then str()
  p_pol,         \* the parsed policy: a sequence of (header, terms) filters
  p_pc,          \* position: "validate", "translate", "built", "done", "raised"
  p_h,           \* filter the constructor is at
  p_t,           \* term of that filter (0: the header itself)
  p_rules,       \* rule entries built so far, in order
  p_tags,        \* tag entries allocated so far, in order of allocation
  p_err,         \* the exception that left the constructor
  p_out,         \* the rendered configuration: str(paloalto)
  \* ---- DescendRecursively on a drawn directory tree
  w_fs,          \* the tree under the base directory: the paths of its files
  w_ignore,      \* ignore_directories
  w_pc,          \* position: "find", "found"
  w_files,       \* the entries DescendRecursively returned
  \* ---- one RenderFile call and the policy objects it holds
  c_conf,        \* the term values the policy text defines, in order
  c_platforms,   \* the platform names the headers of the text carry
  c_pc,          \* position: "parse", "copy", "render", "done", "raised"
  c_obj,         \* heap: policy object -> the term objects its list holds
  c_term,        \* heap: term object -> its value
  c_var,         \* per block of the chain: its variable (jcl, acl, ...)
  c_slot,        \* the block of the chain the call has come to
  c_out          \* per backend that rendered: str(acl_obj)

runVars == <<pc, policy_file, shade_check, max_renderers, pols, results, idx,
             with_errors, task, write_files, disk, touched>>
diffVars == <<d_conf, d_new, d_list, d_disk, d_touched, d_pc, d_run>>
panVars == <<p_pol, p_pc, p_h, p_t, p_rules, p_tags, p_err, p_out>>
walkVars == <<w_fs, w_ignore, w_pc, w_files>>
copyVars == <<c_conf, c_platforms, c_pc, c_obj, c_term, c_var, c_slot, c_out>>
vars == <<runVars, diffVars, panVars, walkVars, copyVars>>

(***************************************************************************)
(* Texts.  A text is a sequence of characters; the three p4 keywords are   *)
(* single characters of the alphabet, so that `tag in line' is membership. *)
(***************************************************************************)
p4_id == "$Id:"
p4_date == "$Date:"
p4_revision == "$Revision:"
NL == "\n"
Alphabet == {"a", p4_id, p4_date, p4_revision, NL}

\* the result of a failed open(): IOError
NoFile == [readable |-> FALSE, text |-> <<>>]
FileOf(t) == [readable |-> TRUE, text |-> t]

\* str.split('\n')
RECURSIVE Split(_)
Split(text) ==
  IF \A k \in 1..Len(text) : text[k] # NL
    THEN <<text>>
    ELSE LET k == CHOOSE j \in 1..Len(text) :
                    text[j] = NL /\ \A m \in 1..(j-1) : text[m] # NL
         IN <<SubSeq(text, 1, k-1)>> \o Split(SubSeq(text, k+1, Len(text)))

\* the lambda of FilesUpdated
p4_tags(x) ==
  \E k \in 1..Len(x) : x[k] = p4_id \/ x[k] = p4_date \/ x[k] = p4_revision

\* SkipLines(text, skip_line_func=p4_tags)
SkipLines(text) == SelectSeq(text, LAMBDA x : ~p4_tags(x))

\* variant: compares the raw texts, tag lines included
FilesUpdatedNoSkip(file, new_text, binary) ==
  IF ~file.readable THEN TRUE ELSE file.text # new_text

FilesUpdated(file, new_text, binary) ==
  IF ~file.readable THEN TRUE
  ELSE IF binary THEN file.text # new_text
  ELSE SkipLines(Split(file.text)) # SkipLines(Split(new_text))

\* variant: an append made on a worker's private copy never reaches the parent
PlainListAppend(list, entry) == list

\* write_files.append(entry) on the manager.list() proxy: the manager process
\* serves one request at a time, so the append is one step on the one list
ProxyAppend(list, entry) == Append(list, entry)

\* RenderACL: the value of write_files after the call; `file' is what
\* FilesUpdated's open(output_file) finds
RenderACL(list, output_file, acl_text, file) ==
  IF FilesUpdated(file, acl_text, FALSE)
    THEN ProxyAppend(list, <<output_file, acl_text>>)
    ELSE list

(***************************************************************************)
(* RenderFile.                                                             *)
(***************************************************************************)
\* the if-chain of RenderFile lines 281-378, in its order: the variable
\* holding the deep copy and the platform name that sets it (lines 230-276)
RenderOrder == <<
  [var |-> "jcl",         platform |-> "juniper"],
  [var |-> "msmpc",       platform |-> "msmpc"],
  [var |-> "srx",         platform |-> "srx"],
  [var |-> "acl",         platform |-> "cisco"],
  [var |-> "asacl",       platform |-> "ciscoasa"],
  [var |-> "aacl",        platform |-> "aruba"],
  [var |-> "bacl",        platform |-> "brocade"],
  [var |-> "eacl",        platform |-> "arista"],
  [var |-> "atp",         platform |-> "arista_tp"],
  [var |-> "ips",         platform |-> "ipset"],
  [var |-> "ipt",         platform |-> "iptables"],
  [var |-> "nsx",         platform |-> "nsxv"],
  [var |-> "spd",         platform |-> "speedway"],
  [var |-> "pcap_accept", platform |-> "pcap"],
  [var |-> "pcap_deny",   platform |-> "pcap"],
  [var |-> "pf",          platform |-> "packetfilter"],
  [var |-> "win_afw",     platform |-> "windows_advfirewall"],
  [var |-> "jsl",         platform |-> "srxlo"],
  [var |-> "xacl",        platform |-> "ciscoxr"],
  [var |-> "nft",         platform |-> "nftables"],
  [var |-> "gcefw",       platform |-> "gce"],
  [var |-> "gcphf",       platform |-> "gcp_hf"],
  [var |-> "paloalto",    platform |-> "paloalto"],
  [var |-> "gca",         platform |-> "cloudarmor"] >>

Slots == 1..Len(RenderOrder)

\* platform names the headers of the drawn policies may carry; "nosuch" is a
\* name no backend is registered for
HeaderPlatforms == {"pcap", "nosuch"}

NextSlotAny(platforms, after) ==
  IF after < Len(RenderOrder) THEN after + 1 ELSE 0

\* the next `if <var>:' of the chain that is taken after slot `after'
\* (0: none is left and RenderFile returns)
NextSlot(platforms, after) ==
  LET left == {k \in Slots : k > after /\ RenderOrder[k].platform \in platforms}
  IN IF left = {} THEN 0
     ELSE CHOOSE k \in left : \A m \in left : k <= m

\* output_file of RenderACL: out_dir/<basename><suffix>; one per (file, slot)
OutputFile(f, k) == <<f, RenderOrder[k].var>>

\* str(acl_obj): the text a backend renders
AclText(f, k) == <<p4_id, NL, "a">>

\* what open(output_file) may find the first time the run looks
DiskContents == {NoFile, FileOf(<<"a">>)}

Files == 1..NumFiles

NewTask == [st |-> "new", cause |-> "", result |-> "none", shaded |-> FALSE,
            platforms |-> {}, made |-> {}]

\* the block of the chain a task has come to (0: none yet)
LastSlot(t) == IF t.made = {} THEN 0
               ELSE CHOOSE k \in t.made : \A m \in t.made : m <= k

RunTerminal == {"done", "exit1", "raised"}

\* policy.ParsePolicy(conf, definitions, shade_check=...): what it raises for
\* a policy text with or without a syntax error and a shaded term
ParsePolicy(syntax_ok, has_shaded, check) ==
  IF ~syntax_ok THEN "policy.Error"
  ELSE IF has_shaded /\ check THEN "policy.ShadingError"
  ELSE "pol"

\* the policy texts a file may hold, as far as the parser tells them apart
PolicyTexts ==
  [syntax_ok : BOOLEAN, has_shaded : BOOLEAN, platforms : SUBSET HeaderPlatforms]

\* RenderFile lines 207-224 on an input file: the task after open and parse
OpenAndParse(t, readable, text, check) ==
  IF ~readable
    THEN [t EXCEPT !.st = "done", !.result = "IOError", !.cause = "open"]
  ELSE LET parsed == ParsePolicy(text.syntax_ok, text.has_shaded, check) IN
    IF parsed = "policy.ShadingError"
      THEN [t EXCEPT !.st = "done", !.result = "None", !.cause = "shading",
                     !.shaded = TRUE]
    ELSE IF parsed = "policy.Error"
      THEN [t EXCEPT !.st = "done", !.result = "ACLParserError",
                     !.cause = "parse"]
    ELSE IF NextSlot(text.platforms, 0) = 0
      THEN [t EXCEPT !.st = "done", !.result = "None",
                     !.shaded = text.has_shaded, !.platforms = text.platforms]
    ELSE [t EXCEPT !.st = "running", !.shaded = text.has_shaded,
                   !.platforms = text.platforms]

\* the except clause of lines 380-385: a generator error of a listed class
\* becomes ACLGeneratorError, any other exception leaves RenderFile as it is
GeneratorFailed(t, listed) ==
  [t EXCEPT !.st = "done", !.cause = "generator",
            !.result = IF listed THEN "ACLGeneratorError" ELSE "Exception"]

\* one `if <var>:' block whose generator was built and rendered
Rendered(t, k) ==
  IF NextSlot(t.platforms, k) = 0
    THEN [t EXCEPT !.made = @ \cup {k}, !.st = "done", !.result = "None"]
    ELSE [t EXCEPT !.made = @ \cup {k}]

Running == {f \in Files : task[f].st = "running"}

(***************************************************************************)
(* Init: the flags Run is called with and the list discovery returned.     *)
(***************************************************************************)
DiffIdle ==
  /\ d_conf = NoFile /\ d_new = <<>> /\ d_list = <<>> /\ d_disk = <<>>
  /\ d_touched = {} /\ d_pc = "off" /\ d_run = 0

NoError == [class |-> "", msg |-> ""]
NoOutput == [rules |-> <<>>, tags |-> <<>>]

PanIdle ==
  /\ p_pol = <<>> /\ p_pc = "off" /\ p_h = 0 /\ p_t = 0 /\ p_rules = <<>>
  /\ p_tags = <<>> /\ p_err = NoError /\ p_out = NoOutput

\* jcl = False, acl = False, ... (lines 183-205)
NoCopy == -1

CopyIdle ==
  /\ c_conf = <<>> /\ c_platforms = {} /\ c_pc = "off" /\ c_obj = <<>>
  /\ c_term = <<>> /\ c_var = <<>> /\ c_slot = 0 /\ c_out = <<>>

WalkIdle == w_fs = {} /\ w_ignore = {} /\ w_pc = "off" /\ w_files = {}

Init ==
  /\ pc = "start"
  /\ policy_file \in BOOLEAN
  /\ shade_check \in BOOLEAN
  /\ max_renderers \in 1..MaxRenderers
  /\ pols \in {[j \in 1..n |-> j] : n \in 0..NumFiles}
  /\ policy_file => pols = <<>>
  /\ results = 0
  /\ idx = 0
  /\ with_errors = FALSE
  /\ task = [f \in Files |-> NewTask]
  /\ write_files = <<>>
  /\ disk = <<>>
  /\ touched = {}
  /\ DiffIdle
  /\ PanIdle
  /\ WalkIdle
  /\ CopyIdle

(***************************************************************************)
(* The main process: Run.                                                  *)
(***************************************************************************)
\* lines 557-583: single-file mode or the pool
RunBegin ==
  /\ pc = "start"
  /\ pc' = IF policy_file THEN "one" ELSE "submit"
  /\ UNCHANGED <<policy_file, shade_check, max_renderers, pols, results, idx,
                 with_errors, task, write_files, disk, touched, diffVars, panVars, walkVars, copyVars>>

\* lines 585-600: one pool.apply_async per entry of pols
Submit ==
  /\ pc = "submit"
  /\ results < Len(pols)
  /\ results' = results + 1
  /\ task' = [task EXCEPT ![pols[results + 1]].st = "queued"]
  /\ UNCHANGED <<pc, policy_file, shade_check, max_renderers, pols, idx,
                 with_errors, write_files, disk, touched, diffVars, panVars, walkVars, copyVars>>

\* line 601: pool.close()
PoolClose ==
  /\ pc = "submit"
  /\ results = Len(pols)
  /\ pc' = "join"
  /\ UNCHANGED <<policy_file, shade_check, max_renderers, pols, results, idx,
                 with_errors, task, write_files, disk, touched, diffVars, panVars, walkVars, copyVars>>

\* variant: join returns at once
PoolJoinNoWait ==
  /\ pc = "join"
  /\ pc' = "collect"
  /\ idx' = 1
  /\ UNCHANGED <<policy_file, shade_check, max_renderers, pols, results,
                 with_errors, task, write_files, disk, touched, diffVars,
                 panVars, walkVars, copyVars>>

\* line 602: pool.join() returns when every task has ended
PoolJoin ==
  /\ pc = "join"
  /\ \A j \in 1..Len(pols) : task[pols[j]].st = "done"
  /\ pc' = "collect"
  /\ idx' = 1
  /\ UNCHANGED <<policy_file, shade_check, max_renderers, pols, results,
                 with_errors, task, write_files, disk, touched, diffVars, panVars, walkVars, copyVars>>

\* lines 604-610: result.get() of one result
Collect ==
  /\ pc = "collect"
  /\ idx <= Len(pols)
  /\ LET r == task[pols[idx]].result IN
       IF r = "None"
         THEN /\ idx' = idx + 1
              /\ UNCHANGED <<pc, with_errors>>
       ELSE IF r \in {"ACLParserError", "ACLGeneratorError"}
         THEN /\ idx' = idx + 1
              /\ with_errors' = TRUE
              /\ UNCHANGED pc
       ELSE /\ pc' = "raised"
            /\ UNCHANGED <<idx, with_errors>>
  /\ UNCHANGED <<policy_file, shade_check, max_renderers, pols, results,
                 task, write_files, disk, touched, diffVars, panVars, walkVars, copyVars>>

\* the loop of lines 604-610 ends; line 613 calls WriteFiles
CollectEnd ==
  /\ pc = "collect"
  /\ idx > Len(pols)
  /\ pc' = "write"
  /\ idx' = 1
  /\ UNCHANGED <<policy_file, shade_check, max_renderers, pols, results,
                 with_errors, task, write_files, disk, touched, diffVars, panVars, walkVars, copyVars>>

\* variant: single-file mode handles the two error classes as the pool
\* branch does and goes on to write
OneEndCatches ==
  /\ pc = "one"
  /\ task[1].st = "done"
  /\ IF task[1].result \in {"None", "ACLParserError", "ACLGeneratorError"}
       THEN pc' = "write" /\ idx' = 1
       ELSE pc' = "raised" /\ UNCHANGED idx
  /\ with_errors' = (task[1].result # "None")
  /\ UNCHANGED <<policy_file, shade_check, max_renderers, pols, results,
                 task, write_files, disk, touched, diffVars, panVars,
                 walkVars, copyVars>>

\* lines 561-569: the one RenderFile call of single-file mode has ended: an
\* exception leaves Run, a return goes on to WriteFiles
OneEnd ==
  /\ pc = "one"
  /\ task[1].st = "done"
  /\ IF task[1].result = "None"
       THEN pc' = "write" /\ idx' = 1
       ELSE pc' = "raised" /\ UNCHANGED idx
  /\ UNCHANGED <<policy_file, shade_check, max_renderers, pols, results,
                 with_errors, task, write_files, disk, touched, diffVars, panVars, walkVars, copyVars>>

\* variant: a line feed is written after the text
WriteOneNewline(d, entry) == [p \in DOMAIN d \cup {entry[1]} |->
                        IF p = entry[1] THEN FileOf(Append(entry[2], NL))
                        ELSE d[p]]

\* _WriteFile(output_file, file_string) for one entry of write_files
WriteOne(d, entry) == [p \in DOMAIN d \cup {entry[1]} |->
                        IF p = entry[1] THEN FileOf(entry[2]) ELSE d[p]]

\* lines 503-504: the loop of WriteFiles
WriteFiles ==
  /\ pc = "write"
  /\ idx <= Len(write_files)
  /\ disk' = WriteOne(disk, write_files[idx])
  /\ touched' = touched \cup {write_files[idx][1]}
  /\ idx' = idx + 1
  /\ UNCHANGED <<pc, policy_file, shade_check, max_renderers, pols, results,
                 with_errors, task, write_files, diffVars, panVars, walkVars, copyVars>>

\* lines 615-619
RunEnd ==
  /\ pc = "write"
  /\ idx > Len(write_files)
  /\ pc' = IF with_errors THEN "exit1" ELSE "done"
  /\ UNCHANGED <<policy_file, shade_check, max_renderers, pols, results, idx,
                 with_errors, task, write_files, disk, touched, diffVars, panVars, walkVars, copyVars>>

(***************************************************************************)
(* The RenderFile calls: pool workers, or the main process in single-file  *)
(* mode.                                                                   *)
(***************************************************************************)
\* variant: every queued task gets a process of its own at once
CanStartUnbounded(f) ==
  \/ /\ pc = "one" /\ f = 1 /\ task[f].st = "new"
  \/ /\ pc \in {"submit", "join"}
     /\ task[f].st = "queued"

\* a worker may take file f: the pool hands tasks out in submission order to
\* at most max_renderers processes; in single-file mode Run itself calls
CanStart(f) ==
  \/ /\ pc = "one" /\ f = 1 /\ task[f].st = "new"
  \/ /\ pc \in {"submit", "join"}
     /\ task[f].st = "queued"
     /\ \A j \in 1..Len(pols) : pols[j] < f => task[pols[j]].st # "queued"
     /\ Cardinality(Running) < max_renderers

\* RenderFile lines 207-276 for file f
TaskStart(f) ==
  /\ CanStart(f)
  /\ \E readable \in BOOLEAN, text \in PolicyTexts :
       task' = [task EXCEPT ![f] = OpenAndParse(@, readable, text, shade_check)]
  /\ UNCHANGED <<pc, policy_file, shade_check, max_renderers, pols, results,
                 idx, with_errors, write_files, disk, touched, diffVars, panVars, walkVars, copyVars>>

\* RenderFile lines 281-385: the next block of the chain; its generator
\* raises, or renders and RenderACL runs
TaskRender(f) ==
  /\ task[f].st = "running"
  /\ LET k == NextSlot(task[f].platforms, LastSlot(task[f]))
         path == OutputFile(f, k)
     IN \/ /\ \E listed \in BOOLEAN :
                 task' = [task EXCEPT ![f] = GeneratorFailed(@, listed)]
           /\ UNCHANGED <<write_files, disk>>
        \/ /\ task' = [task EXCEPT ![f] = Rendered(@, k)]
           /\ \E found \in DiskContents :
                LET file == IF path \in DOMAIN disk THEN disk[path] ELSE found
                IN /\ (path \in DOMAIN disk => found = NoFile)
                   /\ disk' = [p \in DOMAIN disk \cup {path} |->
                                 IF p = path THEN file ELSE disk[p]]
                   /\ write_files' =
                        RenderACL(write_files, path, AclText(f, k), file)
  /\ UNCHANGED <<pc, policy_file, shade_check, max_renderers, pols, results,
                 idx, with_errors, touched, diffVars, panVars, walkVars, copyVars>>

Next ==
  \/ RunBegin
  \/ Submit
  \/ PoolClose
  \/ PoolJoin
  \/ Collect
  \/ CollectEnd
  \/ OneEnd
  \/ WriteFiles
  \/ RunEnd
  \/ \E f \in Files : TaskStart(f)
  \/ \E f \in Files : TaskRender(f)

Spec == Init /\ [][Next]_vars

(***************************************************************************)
(* RenderACL, FilesUpdated and WriteFiles on drawn texts: one output file, *)
(* every content it may have on disk and every rendered text up to         *)
(* MaxTextLen characters.                                                  *)
(***************************************************************************)
RECURSIVE TextsUpTo(_)
TextsUpTo(n) ==
  IF n = 0 THEN {<<>>}
  ELSE LET shorter == TextsUpTo(n - 1)
       IN shorter \cup {Append(t, c) : t \in shorter, c \in Alphabet}

Texts == TextsUpTo(MaxTextLen)

DiffPath == <<1, "jcl">>

RunIdle ==
  /\ pc = "off" /\ policy_file = FALSE /\ shade_check = FALSE
  /\ max_renderers = 1 /\ pols = <<>> /\ results = 0 /\ idx = 0
  /\ with_errors = FALSE /\ task = [f \in Files |-> NewTask]
  /\ write_files = <<>> /\ disk = <<>> /\ touched = {}

DiffInit ==
  /\ RunIdle
  /\ PanIdle
  /\ WalkIdle
  /\ CopyIdle
  /\ d_conf \in {NoFile} \cup {FileOf(t) : t \in Texts}
  /\ d_new \in Texts
  /\ d_list = <<>>
  /\ d_disk = IF d_conf.readable THEN [p \in {DiffPath} |-> d_conf] ELSE <<>>
  /\ d_touched = {}
  /\ d_pc = "render"
  /\ d_run = 1

\* RenderACL(acl_text, suffix, output_directory, input_file, write_files)
DiffRender ==
  /\ d_pc = "render"
  /\ d_list' = RenderACL(d_list, DiffPath, d_new, d_conf)
  /\ d_pc' = "write"
  /\ UNCHANGED <<d_conf, d_new, d_disk, d_touched, d_run, runVars, panVars,
                 walkVars, copyVars>>

\* WriteFiles(write_files): the list holds at most the one entry
DiffWrite ==
  /\ d_pc = "write"
  /\ d_list # <<>>
  /\ d_disk' = WriteOne(d_disk, d_list[1])
  /\ d_touched' = d_touched \cup {d_list[1][1]}
  /\ d_pc' = "done"
  /\ UNCHANGED <<d_conf, d_new, d_list, d_run, runVars, panVars, walkVars, copyVars>>

DiffSkip ==
  /\ d_pc = "write"
  /\ d_list = <<>>
  /\ d_pc' = "done"
  /\ UNCHANGED <<d_conf, d_new, d_list, d_disk, d_touched, d_run, runVars,
                 panVars, walkVars, copyVars>>

DiffNext == DiffRender \/ DiffWrite \/ DiffSkip

SpecDiff == DiffInit /\ [][DiffNext]_vars

(***************************************************************************)
(* Run called a second time on the same policy, definitions and options:   *)
(* the rendered text is the same, write_files is a new list, and           *)
(* FilesUpdated reads what the first Run left on disk.                     *)
(***************************************************************************)
DiffAgain ==
  /\ d_pc = "done"
  /\ d_run = 1
  /\ d_run' = 2
  /\ d_list' = <<>>
  /\ d_conf' = IF DiffPath \in DOMAIN d_disk THEN d_disk[DiffPath] ELSE NoFile
  /\ d_pc' = "render"
  /\ UNCHANGED <<d_new, d_disk, d_touched, runVars, panVars, walkVars, copyVars>>

RerunNext == DiffRender \/ DiffWrite \/ DiffSkip \/ DiffAgain

SpecRerun == DiffInit /\ [][RerunNext]_vars

(***************************************************************************)
(* The Palo Alto backend: paloaltofw.PaloAltoFW(pol, exp_info) and         *)
(* str(paloalto), as tests/lib/paloaltofw_test.py exercises them.  The     *)
(* constructor first validates every term against the capability sets,    *)
(* then translates filter by filter; an exception leaves nothing behind.   *)
(***************************************************************************)
\* bounds of the drawn policies
MaxHeaders == 2
MaxTerms == 2

ZONE_MAX_LEN_32 == 32
\* testZoneLen: 31 characters pass, 32 do not
ZONE_MAX_LEN == 31

ZONE_MAX == "ZZZZZZZZZZZZZZZZZZZZZZZZZZZZZZZ"
ZONE_TOO_LONG == ZONE_MAX \o "Z"

\* the fields of SUPPORTED_TOKENS the drawn terms can set
SUPPORTED_TOKENS ==
  {"action", "comment", "destination_address", "destination_address_exclude",
   "destination_port", "expiration", "icmp_type", "logging", "name", "option",
   "owner", "platform", "protocol", "source_address",
   "source_address_exclude", "source_port", "stateless_reply", "timeout",
   "pan_application", "translated"}

\* the icmp_type entry of SUPPORTED_SUB_TOKENS
ICMP_TYPE_SUB_TOKENS ==
  {"alternate-address", "certification-path-advertisement",
   "certification-path-solicitation", "conversion-error",
   "destination-unreachable", "echo-reply", "echo-request", "mobile-redirect",
   "home-agent-address-discovery-reply",
   "home-agent-address-discovery-request", "icmp-node-information-query",
   "icmp-node-information-response", "information-request",
   "inverse-neighbor-discovery-advertisement",
   "inverse-neighbor-discovery-solicitation", "mask-reply", "mask-request",
   "information-reply", "mobile-prefix-advertisement",
   "mobile-prefix-solicitation", "multicast-listener-done",
   "multicast-listener-query", "multicast-listener-report",
   "multicast-router-advertisement", "multicast-router-solicitation",
   "multicast-router-termination", "neighbor-advertisement",
   "neighbor-solicit", "packet-too-big", "parameter-problem", "redirect",
   "redirect-message", "router-advertisement", "router-renumbering",
   "router-solicit", "router-solicitation", "source-quench", "time-exceeded",
   "timestamp-reply", "timestamp-request", "unreachable",
   "version-2-multicast-listener-report"}

SUPPORTED_SUB_TOKENS_WithCount ==
  [action |-> {"accept", "deny", "reject", "reject-with-tcp-rst", "count"},
   option |-> {"established", "tcp-established"},
   icmp_type |-> ICMP_TYPE_SUB_TOKENS]

\* SUPPORTED_SUB_TOKENS, for the fields the drawn terms give values to
SUPPORTED_SUB_TOKENS ==
  [action |-> {"accept", "deny", "reject", "reject-with-tcp-rst"},
   option |-> {"established", "tcp-established"},
   icmp_type |-> ICMP_TYPE_SUB_TOKENS]

\* variant: reject answers with a silent drop
PanActionRejectDrops(action) ==
  CASE action = "accept" -> "allow"
    [] action = "deny" -> "deny"
    [] action = "reject" -> "deny"
    [] action = "reject-with-tcp-rst" -> "reset-client"
    [] OTHER -> "none"

\* the action element of a rule, per testAcceptAction .. testResetAction
PanAction(action) ==
  CASE action = "accept" -> "allow"
    [] action = "deny" -> "deny"
    [] action = "reject" -> "reset-client"
    [] action = "reject-with-tcp-rst" -> "reset-client"
    [] OTHER -> "none"

\* the fields a term sets
TermTokens(term) ==
  {"name", "action"}
    \cup (IF term.option # {} THEN {"option"} ELSE {})
    \cup (IF term.stateless_reply THEN {"stateless_reply"} ELSE {})
    \cup (IF term.logging # "" THEN {"logging"} ELSE {})
    \cup (IF term.protocol # {} THEN {"protocol"} ELSE {})
    \cup (IF term.icmp_type # {} THEN {"icmp_type"} ELSE {})
    \cup term.other

\* the capability check of one term: a field outside the supported tokens,
\* or a value outside the supported sub-tokens of its field
Unsupported(term) ==
  \/ ~(TermTokens(term) \subseteq SUPPORTED_TOKENS)
  \/ term.action \notin SUPPORTED_SUB_TOKENS.action
  \/ ~(term.option \subseteq SUPPORTED_SUB_TOKENS.option)
  \/ ~(term.icmp_type \subseteq SUPPORTED_SUB_TOKENS.icmp_type)

PanOmittedNoTcp(term) ==
  term.stateless_reply \/ "established" \in term.option

\* terms a stateful backend leaves out: testSkipStatelessReply,
\* testSkipEstablished
PanOmitted(term) ==
  \/ term.stateless_reply
  \/ "established" \in term.option
  \/ "tcp-established" \in term.option

RECURSIVE Join(_, _)
\* sep.join(lines)
Join(lines, sep) ==
  IF lines = <<>> THEN ""
  ELSE IF Len(lines) = 1 THEN lines[1]
  ELSE lines[1] \o sep \o Join(Tail(lines), sep)

\* the key of a header's label: zones and concatenated comment lines
TagKey(header) ==
  <<header.from_zone, header.to_zone, Join(header.comment, " ")>>

\* the label already allocated for a key, as a sequence of 0 or 1 names
TagOf(tags, key) ==
  LET hit == SelectSeq(tags, LAMBDA e : e.key = key)
  IN IF hit = <<>> THEN <<>> ELSE <<hit[1].name>>

PanTagsAlwaysNew(tags, header) ==
  IF header.comment = <<>> THEN tags
  ELSE Append(tags,
         [name |-> header.from_zone \o "_" \o header.to_zone
                     \o "_policy-comment-" \o ToString(Len(tags) + 1),
          comments |-> Join(header.comment, " "),
          key |-> TagKey(header)])

\* the tag entries after a header: a commented header whose key is new
\* allocates <from>_<to>_policy-comment-N, N counting allocations
PanTags(tags, header) ==
  IF header.comment = <<>> \/ TagOf(tags, TagKey(header)) # <<>> THEN tags
  ELSE Append(tags,
         [name |-> header.from_zone \o "_" \o header.to_zone
                     \o "_policy-comment-" \o ToString(Len(tags) + 1),
          comments |-> Join(header.comment, " "),
          key |-> TagKey(header)])

\* the zone length check of a header: the error it raises, if any
ZoneError(header) ==
  IF Len(header.from_zone) > ZONE_MAX_LEN
    THEN [class |-> "PaloAltoFWNameTooLongError",
          msg |-> "Source zone must be " \o ToString(ZONE_MAX_LEN)
                    \o " characters max"]
  ELSE IF Len(header.to_zone) > ZONE_MAX_LEN
    THEN [class |-> "PaloAltoFWNameTooLongError",
          msg |-> "Destination zone must be " \o ToString(ZONE_MAX_LEN)
                    \o " characters max"]
  ELSE NoError

\* variant: every logging keyword other than disable logs both ends
PanLogBothAlways(logging) ==
  CASE logging = "" -> [log_start |-> <<>>, log_end |-> <<>>]
    [] logging = "disable" -> [log_start |-> <<"no">>, log_end |-> <<"no">>]
    [] OTHER -> [log_start |-> <<"yes">>, log_end |-> <<"yes">>]

\* the log-start and log-end elements of a rule (each a sequence of the
\* element's texts, empty when the element is absent), per testLoggingBoth,
\* testDisableLogging, testLogging
PanLog(logging) ==
  CASE logging = "log-both" -> [log_start |-> <<"yes">>, log_end |-> <<"yes">>]
    [] logging = "disable" -> [log_start |-> <<"no">>, log_end |-> <<"no">>]
    [] logging \in {"true", "True", "syslog", "local"} ->
         [log_start |-> <<>>, log_end |-> <<"yes">>]
    [] OTHER -> [log_start |-> <<>>, log_end |-> <<>>]

\* variant: the listed types are dropped and the protocol alone is rendered
PanApplicationNoTypes(term) ==
  IF "icmp" \in term.protocol THEN {"icmp"} ELSE {}

\* the members of a rule's application element that come from ICMP, per
\* testIcmpTypes and testICMPProtocolOnly (members of other protocols and
\* services are outside the model)
PanApplication(term) ==
  IF "icmp" \notin term.protocol THEN {}
  ELSE IF term.icmp_type = {} THEN {"icmp"}
  ELSE {"icmp-" \o ty : ty \in term.icmp_type}

\* variant: icmp types are rendered whatever the protocol
IcmpErrorNever(term) == NoError

\* testBadICMP: icmp-type on a term whose protocol is not ICMP
IcmpError(term) ==
  IF term.icmp_type # {} /\ term.protocol \cap {"icmp", "icmpv6"} = {}
    THEN [class |-> "UnsupportedFilterError", msg |-> term.name]
  ELSE NoError

\* the rule entry of a term
PanRule(header, term, tags) ==
  [name |-> term.name, from |-> header.from_zone, to |-> header.to_zone,
   action |-> PanAction(term.action),
   log_start |-> PanLog(term.logging).log_start,
   log_end |-> PanLog(term.logging).log_end,
   application |-> PanApplication(term),
   tag |-> IF header.comment = <<>> THEN <<>>
           ELSE TagOf(tags, TagKey(header))]

\* ---- the policies drawn
GOOD_HEADER_1 == [from_zone |-> "trust", to_zone |-> "untrust",
                  comment |-> <<"This is a test acl with a comment">>]

PanHeaders ==
  [from_zone : {"trust", ZONE_MAX, ZONE_TOO_LONG},
   to_zone : {"untrust", ZONE_MAX, ZONE_TOO_LONG},
   comment : {<<>>, <<"comment 1", "comment 2">>, <<"comment 3">>}]

PanActions ==
  {"accept", "deny", "reject", "reject-with-tcp-rst", "count", "next"}

PanOptions == {{}, {"established"}, {"tcp-established"}, {"inactive"}}

\* the logging keywords of the LOGGING_* terms
PanLoggings == {"disable", "log-both", "true", "True", "syslog", "local"}

\* the protocol and icmp-type lists of the ICMP terms, and of terms without
PanProtocols == {{}, {"icmp"}, {"tcp"}}
PanIcmpTypes == {{}, {"echo-request"}, {"echo-request", "echo-reply"}}

\* the term shapes drawn: every action with every option, terms with one
\* more field, terms with a logging keyword, terms with protocol and
\* icmp-type lists
PanTerms ==
  [action : PanActions, option : PanOptions, stateless_reply : BOOLEAN,
   other : {{}}, logging : {""}, protocol : {{}}, icmp_type : {{}}]
  \cup [action : {"accept"}, option : {{}}, stateless_reply : BOOLEAN,
        other : {{"pan_application"}, {"counter"}},
        logging : {""}, protocol : {{}}, icmp_type : {{}}]
  \cup [action : {"accept"}, option : {{}}, stateless_reply : {FALSE},
        other : {{}}, logging : PanLoggings, protocol : {{"tcp"}},
        icmp_type : {{}}]
  \cup [action : {"accept"}, option : {{}}, stateless_reply : {FALSE},
        other : {{}}, logging : {""}, protocol : PanProtocols,
        icmp_type : PanIcmpTypes]

PlainTerm == [action |-> "accept", option |-> {}, stateless_reply |-> FALSE,
              other |-> {"pan_application"}, logging |-> "", protocol |-> {},
              icmp_type |-> {}]

\* terms get their names from their place in the file
Named(filters) ==
  [h \in 1..Len(filters) |->
     [header |-> filters[h].header,
      terms |-> [t \in 1..Len(filters[h].terms) |->
                   [name |-> "term-" \o ToString(h) \o "-" \o ToString(t),
                    action |-> filters[h].terms[t].action,
                    option |-> filters[h].terms[t].option,
                    stateless_reply |-> filters[h].terms[t].stateless_reply,
                    other |-> filters[h].terms[t].other,
                    logging |-> filters[h].terms[t].logging,
                    protocol |-> filters[h].terms[t].protocol,
                    icmp_type |-> filters[h].terms[t].icmp_type]]]]

\* the policies drawn: one filter under GOOD_HEADER_1 with every choice of
\* up to MaxTerms terms, or up to MaxHeaders filters with every choice of
\* header over MaxTerms plain terms
PanDrawn(pol) ==
  \/ \E n \in 1..MaxTerms : \E ts \in [1..n -> PanTerms] :
       pol = Named(<<[header |-> GOOD_HEADER_1, terms |-> ts]>>)
  \/ \E n \in 1..MaxHeaders : \E hs \in [1..n -> PanHeaders] :
       pol = Named([h \in 1..n |->
                     [header |-> hs[h],
                      terms |-> [t \in 1..MaxTerms |-> PlainTerm]]])

PanInit ==
  /\ RunIdle
  /\ DiffIdle
  /\ WalkIdle
  /\ CopyIdle
  /\ p_pc = "validate"
  /\ PanDrawn(p_pol)
  /\ p_h = 1
  /\ p_t = 1
  /\ p_rules = <<>>
  /\ p_tags = <<>>
  /\ p_err = NoError
  /\ p_out = NoOutput

\* the place after term t of filter h (the header of the next filter comes
\* as term 0 when translating)
AfterTerm(h, t, first) ==
  IF t < Len(p_pol[h].terms) THEN <<h, t + 1>> ELSE <<h + 1, first>>

\* the generator's capability check of one term at construction
PanValidate ==
  /\ p_pc = "validate"
  /\ p_h <= Len(p_pol)
  /\ IF Unsupported(p_pol[p_h].terms[p_t])
       THEN /\ p_pc' = "raised"
            /\ p_err' = [class |-> "UnsupportedFilterError",
                         msg |-> p_pol[p_h].terms[p_t].name]
            /\ UNCHANGED <<p_h, p_t>>
       ELSE /\ p_h' = AfterTerm(p_h, p_t, 1)[1]
            /\ p_t' = AfterTerm(p_h, p_t, 1)[2]
            /\ UNCHANGED <<p_pc, p_err>>
  /\ UNCHANGED <<p_pol, p_rules, p_tags, p_out, runVars, diffVars, walkVars, copyVars>>

\* every term passed: translation starts at the first header
PanValidated ==
  /\ p_pc = "validate"
  /\ p_h > Len(p_pol)
  /\ p_pc' = "translate"
  /\ p_h' = 1
  /\ p_t' = 0
  /\ UNCHANGED <<p_pol, p_rules, p_tags, p_err, p_out, runVars, diffVars, walkVars, copyVars>>

\* a header: zone lengths, then its label
PanHeader ==
  /\ p_pc = "translate"
  /\ p_h <= Len(p_pol)
  /\ p_t = 0
  /\ LET header == p_pol[p_h].header IN
       IF ZoneError(header) # NoError
         THEN /\ p_pc' = "raised"
              /\ p_err' = ZoneError(header)
              /\ UNCHANGED <<p_t, p_tags>>
         ELSE /\ p_tags' = PanTags(p_tags, header)
              /\ p_t' = 1
              /\ UNCHANGED <<p_pc, p_err>>
  /\ UNCHANGED <<p_pol, p_h, p_rules, p_out, runVars, diffVars, walkVars, copyVars>>

\* a term: left out, refused for its icmp types, or one more rule entry
PanTerm ==
  /\ p_pc = "translate"
  /\ p_h <= Len(p_pol)
  /\ p_t >= 1
  /\ LET header == p_pol[p_h].header
         term == p_pol[p_h].terms[p_t]
     IN IF ~PanOmitted(term) /\ IcmpError(term) # NoError
          THEN /\ p_pc' = "raised"
               /\ p_err' = IcmpError(term)
               /\ UNCHANGED <<p_h, p_t, p_rules>>
          ELSE /\ p_rules' = IF PanOmitted(term) THEN p_rules
                             ELSE Append(p_rules, PanRule(header, term, p_tags))
               /\ p_h' = AfterTerm(p_h, p_t, 0)[1]
               /\ p_t' = AfterTerm(p_h, p_t, 0)[2]
               /\ UNCHANGED <<p_pc, p_err>>
  /\ UNCHANGED <<p_pol, p_tags, p_out, runVars, diffVars, walkVars, copyVars>>

\* the constructor returns
PanBuilt ==
  /\ p_pc = "translate"
  /\ p_h > Len(p_pol)
  /\ p_pc' = "built"
  /\ UNCHANGED <<p_pol, p_h, p_t, p_rules, p_tags, p_err, p_out, runVars,
                 diffVars, walkVars, copyVars>>

\* str(paloalto): the rulebase and the tags of the configuration
PanStr ==
  /\ p_pc = "built"
  /\ p_out' = [rules |-> p_rules,
               tags |-> [j \in 1..Len(p_tags) |->
                           [name |-> p_tags[j].name,
                            comments |-> p_tags[j].comments]]]
  /\ p_pc' = "done"
  /\ UNCHANGED <<p_pol, p_h, p_t, p_rules, p_tags, p_err, runVars, diffVars, walkVars, copyVars>>

PanNext ==
  \/ PanValidate
  \/ PanValidated
  \/ PanHeader
  \/ PanTerm
  \/ PanBuilt
  \/ PanStr

SpecPan == PanInit /\ [][PanNext]_vars

(***************************************************************************)
(* DescendRecursively on drawn directory trees.  A tree is the set of the  *)
(* paths of its files, each a sequence of names below the base directory;  *)
(* every proper prefix of a path is a directory.                           *)
(***************************************************************************)
\* longest path below the base directory
MaxDepth == 4

\* names of directory entries; any of them may name a file or a directory
EntryNames == {"pol", "def", "x", "a.pol"}

\* str.endswith(suffix), for the names drawn
EndsWith(x, suffix) == \E stem \in {"", "a", "x"} : x = stem \o suffix

RECURSIVE PathsUpTo(_)
PathsUpTo(n) ==
  IF n = 0 THEN {<<>>}
  ELSE LET shorter == PathsUpTo(n - 1)
       IN shorter \cup {Append(p, x) : p \in shorter, x \in EntryNames}

IsPrefix(p, q) == Len(p) <= Len(q) /\ SubSeq(q, 1, Len(p)) = p

\* the trees drawn: at most two files, neither below the other
WalkDrawn(fs) ==
  \/ fs = {}
  \/ \E p \in PathsUpTo(MaxDepth) \ {<<>>}, q \in PathsUpTo(MaxDepth) \ {<<>>} :
       /\ p = q \/ (~IsPrefix(p, q) /\ ~IsPrefix(q, p))
       /\ fs = {p, q}

\* os.listdir(dir)
ListDir(fs, dir) ==
  {p[Len(dir) + 1] : p \in {q \in fs : IsPrefix(dir, q) /\ Len(q) > Len(dir)}}

\* os.path.isdir(path)
IsDir(fs, path) == \E p \in fs : IsPrefix(path, p) /\ Len(p) > Len(path)

\* DescendRecursively(input_dirname, output_dirname, definitions,
\* ignore_directories): the entries found, in_file and out_dir as paths
\* below the base and the output directory
RECURSIVE DescendRecursively(_, _, _, _)
DescendRecursively(fs, input_dirname, output_dirname, ignore_directories) ==
  LET dirs == {x \in ListDir(fs, input_dirname) :
                 IsDir(fs, Append(input_dirname, x))}
      found(curdir) ==
        IF curdir = "pol"
          THEN {[in_file |-> input_dirname \o <<"pol", x>>,
                 out_dir |-> output_dirname] :
                  x \in {y \in ListDir(fs, Append(input_dirname, "pol")) :
                           EndsWith(y, ".pol")}}
        ELSE IF curdir \in ignore_directories THEN {}
        ELSE DescendRecursively(fs, Append(input_dirname, curdir),
                                Append(output_dirname, curdir),
                                ignore_directories)
  IN UNION {found(curdir) : curdir \in dirs}

WalkInit ==
  /\ RunIdle
  /\ DiffIdle
  /\ PanIdle
  /\ CopyIdle
  /\ WalkDrawn(w_fs)
  /\ w_ignore \in SUBSET {"def", "pol"}
  /\ w_pc = "find"
  /\ w_files = {}

\* Run lines 573-581: the call on the base and the output directory
WalkDiscover ==
  /\ w_pc = "find"
  /\ w_files' = DescendRecursively(w_fs, <<>>, <<>>, w_ignore)
  /\ w_pc' = "found"
  /\ UNCHANGED <<w_fs, w_ignore, runVars, diffVars, panVars, copyVars>>

WalkNext == WalkDiscover

SpecWalk == WalkInit /\ [][WalkNext]_vars

(***************************************************************************)
(* One RenderFile call and the policy objects it holds (lines 214-385).    *)
(* A policy object holds a list of term objects; a term object holds a     *)
(* value.  Object 0 is pol, the object ParsePolicy returned; the object a  *)
(* copy makes for the variable of block k of the chain is object k.        *)
(***************************************************************************)
\* most terms a drawn policy text defines
MaxPolTerms == 2

\* the values a term may have, before or after a backend has changed it
TermValues == {"a", "b"}

\* platform names the headers of the drawn texts may carry
CopyPlatforms == {"juniper", "pcap", "nosuch"}

\* the term values the drawn policy texts define
Contents == UNION {[1..n -> TermValues] : n \in 1..MaxPolTerms}

\* the object ParsePolicy returns
Pol == 0

\* what a policy object holds, read through its list: the values of its terms
Content(obj, term, ref) == [j \in 1..Len(obj[ref]) |-> term[obj[ref][j]]]

\* variant: copy.copy(pol), a new policy object whose list holds the term
\* objects of the policy it was copied from
ShallowCopy(obj, term, src, new) ==
  [obj  |-> [r \in DOMAIN obj \cup {new} |->
               IF r = new THEN obj[src] ELSE obj[r]],
   term |-> term]

\* copy.deepcopy(pol): a new policy object `new' with new term objects that
\* hold the values of the terms of `src'
DeepCopy(obj, term, src, new) ==
  LET ids == {<<new, j>> : j \in 1..Len(obj[src])}
  IN [obj  |-> [r \in DOMAIN obj \cup {new} |->
                  IF r = new THEN [j \in 1..Len(obj[src]) |-> <<new, j>>]
                  ELSE obj[r]],
      term |-> [t \in DOMAIN term \cup ids |->
                  IF t \in ids THEN term[obj[src][t[2]]] ELSE term[t]]]

\* str(acl_obj) of the generator of block k built on a policy holding
\* `content': a text of that backend and that content alone
Generate(k, content) == <<RenderOrder[k].var, content>>

\* the next `if <var>:' of lines 281-378 whose variable is a policy
\* (0: none is left)
NextCopy(var, after) ==
  LET left == {k \in Slots : k > after /\ var[k] # NoCopy}
  IN IF left = {} THEN 0
     ELSE CHOOSE k \in left : \A m \in left : k <= m

CopyInit ==
  /\ RunIdle
  /\ DiffIdle
  /\ PanIdle
  /\ WalkIdle
  /\ c_conf \in Contents
  /\ c_platforms \in SUBSET CopyPlatforms
  /\ c_pc = "parse"
  /\ c_obj = <<>>
  /\ c_term = <<>>
  /\ c_var = [k \in Slots |-> NoCopy]
  /\ c_slot = 0
  /\ c_out = <<>>

\* lines 214-228: ParsePolicy returns pol; platforms is read off its headers
CopyParse ==
  /\ c_pc = "parse"
  /\ c_obj' = [r \in {Pol} |-> [j \in 1..Len(c_conf) |-> <<Pol, j>>]]
  /\ c_term' = [t \in {<<Pol, j>> : j \in 1..Len(c_conf)} |-> c_conf[t[2]]]
  /\ c_pc' = "copy"
  /\ UNCHANGED <<c_conf, c_platforms, c_var, c_slot, c_out, runVars, diffVars,
                 panVars, walkVars>>

\* lines 230-276: one `<var> = copy.deepcopy(pol)' for a platform the
\* headers carry
CopyMake ==
  /\ c_pc = "copy"
  /\ LET k == NextSlot(c_platforms, c_slot) IN
       /\ k # 0
       /\ LET heap == DeepCopy(c_obj, c_term, Pol, k) IN
            /\ c_obj' = heap.obj
            /\ c_term' = heap.term
       /\ c_var' = [c_var EXCEPT ![k] = k]
       /\ c_slot' = k
  /\ UNCHANGED <<c_conf, c_platforms, c_pc, c_out, runVars, diffVars, panVars,
                 walkVars>>

\* lines 278-280: the copies are made, the chain of generators starts
CopyEnd ==
  /\ c_pc = "copy"
  /\ NextSlot(c_platforms, c_slot) = 0
  /\ c_pc' = "render"
  /\ c_slot' = 0
  /\ UNCHANGED <<c_conf, c_platforms, c_obj, c_term, c_var, c_out, runVars,
                 diffVars, panVars, walkVars>>

\* lines 281-378: the next block of the chain.  Its generator is handed the
\* policy object of its variable, renders what that object holds, and may
\* leave any values in the terms of that object; or it raises
CopyRender ==
  /\ c_pc = "render"
  /\ LET k == NextCopy(c_var, c_slot) IN
       /\ k # 0
       /\ \/ /\ c_pc' = "raised"
             /\ UNCHANGED <<c_term, c_out, c_slot>>
          \/ /\ c_out' = [m \in DOMAIN c_out \cup {k} |->
                            IF m = k
                              THEN Generate(k, Content(c_obj, c_term, c_var[k]))
                              ELSE c_out[m]]
             /\ \E left \in [1..Len(c_obj[c_var[k]]) -> TermValues] :
                  c_term' = [t \in DOMAIN c_term |->
                    IF \E j \in 1..Len(c_obj[c_var[k]]) : c_obj[c_var[k]][j] = t
                      THEN left[CHOOSE j \in 1..Len(c_obj[c_var[k]]) :
                                  c_obj[c_var[k]][j] = t]
                      ELSE c_term[t]]
             /\ c_slot' = k
             /\ UNCHANGED c_pc
  /\ UNCHANGED <<c_conf, c_platforms, c_obj, c_var, runVars, diffVars,
                 panVars, walkVars>>

\* line 378: no block is left and RenderFile returns
CopyReturn ==
  /\ c_pc = "render"
  /\ NextCopy(c_var, c_slot) = 0
  /\ c_pc' = "done"
  /\ UNCHANGED <<c_conf, c_platforms, c_obj, c_term, c_var, c_slot, c_out,
                 runVars, diffVars, panVars, walkVars>>

CopyNext == CopyParse \/ CopyMake \/ CopyEnd \/ CopyRender \/ CopyReturn

SpecCopy == CopyInit /\ [][CopyNext]_vars

(***************************************************************************)
(* Properties of Run in multi-file mode.                                   *)
(***************************************************************************)
MultiFile == ~policy_file /\ pc # "off"

\* a file failed to compile: it could not be opened, did not parse, was
\* refused by the shade check, or a generator raised
FailedToCompile(f) == task[f].st = "done" /\ task[f].cause # ""

Compiled(f) == task[f].st = "done" /\ task[f].cause = ""

\* the entries of write_files that file f appended
EntriesOf(f) == {j \in 1..Len(write_files) : write_files[j][1][1] = f}

OnDisk(entry) ==
  /\ entry[1] \in DOMAIN disk
  /\ disk[entry[1]] = FileOf(entry[2])
  /\ entry[1] \in touched

\* C1: in multi-file mode, whatever error the RenderFile task of one file
\* raises, every sibling file that rendered successfully has its changed
\* outputs written to disk when Run ends.
C1_SiblingsWritten ==
  (MultiFile /\ pc \in RunTerminal) =>
    \A f \in Files, g \in Files :
      (f # g /\ Compiled(f) /\ FailedToCompile(g)) =>
        \A j \in EntriesOf(f) : OnDisk(write_files[j])

\* C2: in multi-file mode Run ends with failure status ("done, with
\* errors.", sys.exit(1)) exactly when at least one policy file failed to
\* compile, ends with "done." only when every file compiled, and reports
\* either outcome only after all files have been processed.
C2_AggregateStatus ==
  (MultiFile /\ pc \in RunTerminal) =>
    /\ (pc = "exit1") <=> (\E f \in Files : FailedToCompile(f))
    /\ (pc = "done") => (\A j \in 1..Len(pols) : Compiled(pols[j]))
    /\ \A j \in 1..Len(pols) : task[pols[j]].st = "done"

\* C3: with shade checking enabled a policy with a shaded term fails: its
\* RenderFile produces no output and the caller gets an error, not a normal
\* return; with shade checking disabled the same policy compiles and its
\* outputs are produced.
C3_ShadedFails ==
  \A f \in Files :
    (task[f].st = "done" /\ task[f].shaded) =>
      IF shade_check
        THEN task[f].made = {} /\ task[f].result # "None"
        ELSE task[f].cause = "" =>
               /\ task[f].result = "None"
               /\ task[f].made = {k \in Slots :
                     RenderOrder[k].platform \in task[f].platforms}

\* the lines of a text: the stretches between consecutive line feeds
Cuts(t) == {0, Len(t) + 1} \cup {k \in 1..Len(t) : t[k] = NL}
Cut(t, j) == CHOOSE c \in Cuts(t) : Cardinality({d \in Cuts(t) : d < c}) = j - 1
LinesOf(t) == [j \in 1..(Cardinality(Cuts(t)) - 1) |->
                 SubSeq(t, Cut(t, j) + 1, Cut(t, j + 1) - 1)]
HasTag(line) ==
  {line[k] : k \in 1..Len(line)} \cap {p4_id, p4_date, p4_revision} # {}
KeptLines(t) == SelectSeq(LinesOf(t), LAMBDA l : ~HasTag(l))

\* the output differs from the rendered text: it cannot be read, or the
\* two differ once the lines holding a p4 tag are taken out of both
Differs(file, text) ==
  ~file.readable \/ KeptLines(file.text) # KeptLines(text)

\* C4: RenderACL schedules (output_file, acl_text) for writing exactly when
\* the output file cannot be read or differs from the rendered text after
\* the lines holding $Id:, $Date: or $Revision: are removed from both; an
\* unchanged output is not scheduled and WriteFiles leaves it untouched.
C4_SkipIfUnchanged ==
  d_pc \in {"write", "done"} =>
    /\ d_list = IF Differs(d_conf, d_new) THEN << <<DiffPath, d_new>> >>
                ELSE <<>>
    /\ ~Differs(d_conf, d_new) =>
         /\ d_touched = {}
         /\ d_disk = [p \in {DiffPath} |-> d_conf]

\* an output that differs from the rendered text only in its p4 tag lines
\* went through RenderACL and WriteFiles and was left alone
C4_Witness ==
  /\ d_pc = "done"
  /\ d_conf.readable
  /\ d_conf.text # d_new
  /\ \E k \in 1..Len(d_new) : d_new[k] = p4_revision
  /\ \E k \in 1..Len(d_new) : d_new[k] = "a"
  /\ d_list = <<>>
  /\ d_touched = {}

\* the renderings whose FilesUpdated check was true, before any write
Updated ==
  {<<f, k>> \in Files \X Slots :
     /\ k \in task[f].made
     /\ FilesUpdated(disk[OutputFile(f, k)], AclText(f, k), FALSE)}

\* C5: under every interleaving of the workers, until WriteFiles starts,
\* write_files holds exactly one (output_file, acl_text) entry for each
\* (file, backend) rendering whose FilesUpdated check was true, and nothing
\* else: no append is lost or duplicated.
C5_AppendOnly ==
  (MultiFile /\ touched = {}) =>
    /\ \A fk \in Updated :
         Cardinality({j \in 1..Len(write_files) : write_files[j] =
            <<OutputFile(fk[1], fk[2]), AclText(fk[1], fk[2])>>}) = 1
    /\ Len(write_files) = Cardinality(Updated)

\* the pool is joined and the appends of two files are interleaved
C5_Witness ==
  /\ MultiFile /\ pc = "collect"
  /\ Len(write_files) = 4
  /\ write_files[1][1][1] = 2
  /\ write_files[2][1][1] = 1
  /\ write_files[3][1][1] = 2

\* C6: RenderFile builds a generator for exactly the registered platform
\* names that some header of the parsed policy carries; a registered
\* platform no header names yields no output, and a header platform no
\* backend is registered for yields neither output nor an error.
C6_PlatformSelection ==
  \A f \in Files :
    LET named == {k \in Slots : RenderOrder[k].platform \in task[f].platforms}
        registered == {RenderOrder[k].platform : k \in Slots}
    IN /\ task[f].made \subseteq named
       /\ (Compiled(f) /\ task[f].result = "None") => task[f].made = named
       /\ \A j \in EntriesOf(f) :
            \E k \in task[f].made : write_files[j][1] = OutputFile(f, k)
       /\ (task[f].st = "done" /\ task[f].platforms # {}
            /\ task[f].platforms \cap registered = {}) =>
              task[f].result = "None" /\ task[f].cause = ""

\* a policy naming pcap and an unregistered platform has ended with the two
\* pcap generators built, and another naming only the unregistered one
C6_Witness ==
  \E f \in Files, g \in Files :
    /\ task[f].st = "done" /\ task[f].result = "None"
    /\ task[f].platforms = {"pcap", "nosuch"}
    /\ task[f].made = {14, 15}
    /\ task[g].st = "done" /\ task[g].platforms = {"nosuch"}
    /\ task[g].result = "None"

\* the files discovery returned
Discovered == {pols[j] : j \in 1..Len(pols)}

\* some RenderFile call takes a step
TaskStep(f) == task'[f] # task[f] /\ task[f].st \in {"queued", "running"}

C15_State ==
  MultiFile =>
    /\ Cardinality(Running) <= max_renderers
    /\ \A f \in Files \ Discovered : task[f] = NewTask
    /\ {f \in Files : task[f].st # "new"} = {pols[j] : j \in 1..results}
    /\ pc \notin {"start", "submit"} =>
         results = Len(pols) /\ \A f \in Discovered : task[f].st # "new"

C15_Step ==
  MultiFile =>
    /\ \A f \in Files :
         (task'[f].st = "queued" /\ task[f].st # "queued") =>
           /\ task[f].st = "new"
           /\ results' = results + 1
           /\ f = pols[results']
           /\ \A g \in Files \ {f} : task'[g] = task[g]
    /\ \A f \in Files :
         TaskStep(f) =>
           /\ \A g \in Files \ {f} : task'[g] = task[g]
           /\ UNCHANGED <<pc, policy_file, shade_check, max_renderers, pols,
                          results, idx, with_errors, touched>>
           /\ \A p \in DOMAIN disk : p \in DOMAIN disk' /\ disk'[p] = disk[p]
           /\ \/ write_files' = write_files
              \/ /\ Len(write_files') = Len(write_files) + 1
                 /\ SubSeq(write_files', 1, Len(write_files)) = write_files

\* C15: in multi-file mode Run submits exactly one RenderFile task for each
\* policy file discovery returned (none skipped, none twice), at most
\* max_renderers tasks run at the same time, and a task changes nothing but
\* its own state and, by appending, write_files: no task changes another
\* task, Run's variables or a file on disk.
C15_BoundedPool == [](C15_State) /\ [][C15_Step]_vars

\* with one process in the pool the first file is being rendered while the
\* second, submitted, waits
C15_Witness ==
  /\ MultiFile /\ pc = "join"
  /\ max_renderers = 1
  /\ Len(pols) = 2
  /\ task[1].st = "running" /\ task[1].made # {}
  /\ task[2].st = "queued"

\* an output file is created or modified
DiskWritten ==
  \/ touched' # touched
  \/ \E p \in DOMAIN disk : p \notin DOMAIN disk' \/ disk'[p] # disk[p]

AllTasksEnded == \A f \in Discovered : task[f].st = "done"

C17_State ==
  MultiFile =>
    /\ (touched # {} \/ pc \in {"collect", "write", "done", "exit1"}) =>
         /\ AllTasksEnded
         /\ results = Len(pols)
    /\ touched # {} => pc \in {"write", "done", "exit1"}
    /\ pc \in {"done", "exit1"} =>
         /\ idx = Len(write_files) + 1
         /\ \A j \in 1..Len(write_files) : OnDisk(write_files[j])

C17_Step ==
  MultiFile =>
    /\ (pc' = "write" /\ pc # "write") =>
         pc = "collect" /\ idx > Len(pols) /\ AllTasksEnded /\ idx' = 1
    /\ DiskWritten =>
         /\ pc = "write" /\ pc' = "write"
         /\ AllTasksEnded
         /\ idx \in 1..Len(write_files)
         /\ disk' = WriteOne(disk, write_files[idx])
         /\ touched' = touched \cup {write_files[idx][1]}
         /\ idx' = idx + 1
    /\ pc = "write" => write_files' = write_files /\ (idx' # idx => DiskWritten)

NamedSlots(f) == {k \in Slots : RenderOrder[k].platform \in task[f].platforms}

\* C18: when the generator of one backend raises, the backends later in the
\* chain are not invoked for the file, the outputs the earlier backends
\* appended to write_files stay there, and in multi-file mode they are
\* written to disk while Run reports the failure (done, with errors).
C18_PartialOutput ==
  MultiFile =>
    \A f \in Files :
      (task[f].st = "done" /\ task[f].cause = "generator") =>
        /\ task[f].made \subseteq NamedSlots(f)
        /\ task[f].made # NamedSlots(f)
        /\ \A k \in task[f].made, m \in NamedSlots(f) :
             m < k => m \in task[f].made
        /\ \A k \in task[f].made :
             FilesUpdated(disk[OutputFile(f, k)], AclText(f, k), FALSE) =>
               \E j \in EntriesOf(f) : write_files[j][1] = OutputFile(f, k)
        /\ pc \in RunTerminal =>
             /\ pc = "exit1"
             /\ \A j \in EntriesOf(f) : OnDisk(write_files[j])

SingleFile == policy_file /\ pc # "off"

\* the one RenderFile call raised
OneRaised == task[1].st = "done" /\ task[1].result # "None"

C20_State ==
  SingleFile =>
    /\ pols = <<>> /\ results = 0
    /\ pc \in {"start", "one", "write", "done", "raised"}
    /\ \A f \in Files \ {1} : task[f] = NewTask
    /\ task[1].st \notin {"queued"}
    /\ task[1].st # "new" => pc # "start"
    /\ pc \in {"write", "done"} => task[1].st = "done"
    /\ OneRaised =>
         /\ pc \in {"one", "raised"}
         /\ touched = {}
    /\ (pc \in RunTerminal /\ task[1].result # "None") => pc = "raised"

C20_Step ==
  SingleFile =>
    /\ task' # task => pc = "one" /\ pc' = "one"
    /\ DiskWritten => ~OneRaised /\ pc = "write"
    /\ OneRaised => pc' \in {"one", "raised"}

\* C20: when policy_file is given, Run renders that one file itself, with
\* no discovery and no pool task, and does nothing else until RenderFile
\* has ended; if RenderFile raises, the error leaves Run, WriteFiles is not
\* called and no output file is created or modified.
C20_SingleFile == [](C20_State) /\ [][C20_Step]_vars

\* in single-file mode a generator raised after an earlier backend had
\* appended its output, and Run has ended with nothing written
C20_Witness ==
  /\ SingleFile /\ pc = "raised"
  /\ task[1].cause = "generator"
  /\ task[1].result = "ACLGeneratorError"
  /\ task[1].made # {}
  /\ Len(write_files) >= 1
  /\ touched = {}

C19_State ==
  (d_run = 2 /\ d_pc \in {"write", "done"}) => d_list = <<>>

C19_Step ==
  d_run = 2 => d_disk' = d_disk /\ d_touched' = d_touched

PanPlaces == {<<h, t>> \in (1..MaxHeaders) \X (1..MaxTerms) :
                h <= Len(p_pol) /\ t <= Len(p_pol[h].terms)}

\* a term the backend cannot express: an action other than accept, deny,
\* reject, reject-with-tcp-rst, an option other than established,
\* tcp-established, or a field that is no supported token
Inexpressible(term) ==
  \/ term.action \in {"count", "next"}
  \/ "inactive" \in term.option
  \/ "counter" \in term.other

SomeInexpressible == \E ht \in PanPlaces : Inexpressible(p_pol[ht[1]].terms[ht[2]])

TooLong(zone) == Len(zone) > 31

\* a term that lists icmp types and names no ICMP protocol
BadIcmp(term) ==
  term.icmp_type # {} /\ "icmp" \notin term.protocol
    /\ "icmpv6" \notin term.protocol

SomeBadIcmp == \E ht \in PanPlaces : BadIcmp(p_pol[ht[1]].terms[ht[2]])

\* the rule entries of the rendered configuration named after a term
RulesNamed(name) == {j \in 1..Len(p_out.rules) : p_out.rules[j].name = name}

\* C7: a term that sets a field outside the supported tokens, or a value
\* outside the supported sub-tokens of its field (an action such as count or
\* next, an option such as inactive), makes the construction of the
\* generator fail with UnsupportedFilterError, and nothing is rendered.
C7_CapabilityValidation ==
  SomeInexpressible =>
    /\ p_pc \in {"validate", "raised"}
    /\ p_pc = "raised" => p_err.class = "UnsupportedFilterError"
    /\ p_rules = <<>>
    /\ p_out = NoOutput

\* the second term of a filter asks for action next and the constructor
\* has raised on it, although the term is a stateless reply
C7_Witness ==
  /\ p_pc = "raised"
  /\ p_err.class = "UnsupportedFilterError"
  /\ p_h = 1 /\ p_t = 2
  /\ p_pol[1].terms[2].action = "next"
  /\ p_pol[1].terms[2].stateless_reply
  /\ ~Inexpressible(p_pol[1].terms[1])

\* C8: a from-zone or to-zone of at most 31 characters is accepted and is
\* the from/to member of the header's rules unchanged; a from-zone of more
\* than 31 characters fails the construction with
\* PaloAltoFWNameTooLongError "Source zone must be 31 characters max", and a
\* to-zone of more than 31 characters (under a from-zone within the limit)
\* with the same class and "Destination zone must be 31 characters max".
C8_ZoneLength ==
  /\ \A h \in 1..Len(p_pol) :
       LET header == p_pol[h].header
           passed == \/ p_pc \in {"built", "done"}
                     \/ p_pc = "translate" /\ (p_h > h \/ (p_h = h /\ p_t >= 1))
       IN /\ passed => ~TooLong(header.from_zone) /\ ~TooLong(header.to_zone)
          /\ (p_pc = "done" /\ passed) =>
               \A t \in 1..Len(p_pol[h].terms) :
                 \A j \in RulesNamed(p_pol[h].terms[t].name) :
                   /\ p_out.rules[j].from = header.from_zone
                   /\ p_out.rules[j].to = header.to_zone
  /\ (p_pc = "raised" /\ ~SomeInexpressible /\ ~SomeBadIcmp) =>
       LET header == p_pol[p_h].header IN
         /\ p_err.class = "PaloAltoFWNameTooLongError"
         /\ p_out = NoOutput
         /\ IF TooLong(header.from_zone)
              THEN p_err.msg = "Source zone must be 31 characters max"
              ELSE /\ TooLong(header.to_zone)
                   /\ p_err.msg = "Destination zone must be 31 characters max"
  /\ (p_pc = "done" /\ p_pol[1].header.from_zone = ZONE_MAX) =>
       \E j \in 1..Len(p_out.rules) : Len(p_out.rules[j].from) = 31

\* the first header, with a from-zone of exactly 31 characters, was accepted
\* and the to-zone of the second, one character longer, was refused
C8_Witness ==
  /\ p_pc = "raised"
  /\ p_h = 2
  /\ Len(p_pol[1].header.from_zone) = 31
  /\ Len(p_rules) >= 1 /\ p_rules[1].from = p_pol[1].header.from_zone
  /\ Len(p_pol[2].header.from_zone) = 31
  /\ Len(p_pol[2].header.to_zone) = 32
  /\ p_err.msg = "Destination zone must be 31 characters max"

\* C9: a term whose stateless_reply flag is set, or whose option is
\* established or tcp-established, has no rule entry in the rendered
\* rulebase and raises no error; every other term of the filter has a rule
\* entry named after it.
C9_StatefulOmission ==
  /\ p_pc = "done" =>
       \A ht \in PanPlaces :
         LET term == p_pol[ht[1]].terms[ht[2]] IN
           Cardinality(RulesNamed(term.name)) =
             IF \/ term.stateless_reply
                \/ term.option \cap {"established", "tcp-established"} # {}
               THEN 0 ELSE 1
  /\ p_pc = "raised" =>
       \/ Inexpressible(p_pol[p_h].terms[IF p_t = 0 THEN 1 ELSE p_t])
       \/ BadIcmp(p_pol[p_h].terms[IF p_t = 0 THEN 1 ELSE p_t])
       \/ TooLong(p_pol[p_h].header.from_zone)
       \/ TooLong(p_pol[p_h].header.to_zone)

\* a filter of a tcp-established term and an ordinary term was rendered
\* with the one rule
C9_Witness ==
  /\ p_pc = "done"
  /\ Len(p_pol[1].terms) = 2
  /\ p_pol[1].terms[1].option = {"tcp-established"}
  /\ ~p_pol[1].terms[1].stateless_reply
  /\ p_pol[1].terms[2].option = {}
  /\ ~p_pol[1].terms[2].stateless_reply
  /\ Len(p_out.rules) = 1
  /\ p_out.rules[1].name = p_pol[1].terms[2].name

\* the headers up to h that carry a comment and are the first with their key
Allocating(h) ==
  {g \in 1..h :
     /\ p_pol[g].header.comment # <<>>
     /\ \A e \in 1..(g-1) : TagKey(p_pol[e].header) # TagKey(p_pol[g].header)}

\* the first header with the key of header h
FirstWithKey(h) ==
  CHOOSE g \in 1..h :
    /\ TagKey(p_pol[g].header) = TagKey(p_pol[h].header)
    /\ \A e \in 1..(g-1) : TagKey(p_pol[e].header) # TagKey(p_pol[h].header)

\* the label of a commented header h
LabelOf(h) ==
  p_pol[h].header.from_zone \o "_" \o p_pol[h].header.to_zone
    \o "_policy-comment-" \o ToString(Cardinality(Allocating(FirstWithKey(h))))

\* C10: within one compilation a commented header gets the label keyed by
\* (from-zone, to-zone, concatenated comments); the first header with a key
\* allocates <from>_<to>_policy-comment-N, N counting allocations, with the
\* comment lines joined in order as its text; a later header with the same
\* key reuses it; every rule of a commented header carries exactly that
\* label, and a header without comment allocates none and its rules carry
\* no tag.
C10_TagDerivation ==
  p_pc = "done" =>
    /\ Len(p_out.tags) = Cardinality(Allocating(Len(p_pol)))
    /\ \A h \in 1..Len(p_pol) :
         LET header == p_pol[h].header IN
           /\ header.comment # <<>> =>
                \E n \in 1..Len(p_out.tags) :
                  /\ n = Cardinality(Allocating(FirstWithKey(h)))
                  /\ p_out.tags[n].name = LabelOf(h)
                  /\ p_out.tags[n].comments = Join(header.comment, " ")
           /\ \A t \in 1..Len(p_pol[h].terms) :
                \A j \in RulesNamed(p_pol[h].terms[t].name) :
                  p_out.rules[j].tag =
                    IF header.comment = <<>> THEN <<>> ELSE <<LabelOf(h)>>

\* two headers with the same zones and comments were rendered with the one
\* label, which the rules of both carry
C10_Witness ==
  /\ p_pc = "done"
  /\ Len(p_pol) = 2
  /\ p_pol[1].header = p_pol[2].header
  /\ p_pol[1].header.comment = <<"comment 1", "comment 2">>
  /\ Len(p_out.tags) = 1
  /\ p_out.tags[1].name = "trust_untrust_policy-comment-1"
  /\ p_out.tags[1].comments = "comment 1 comment 2"
  /\ Len(p_out.rules) >= 2
  /\ \A j \in 1..Len(p_out.rules) :
       p_out.rules[j].tag = <<"trust_untrust_policy-comment-1">>

\* the one rule entry of the rendered configuration named after a term
RuleOf(term) == p_out.rules[CHOOSE j \in RulesNamed(term.name) : TRUE]

\* a term the backend renders: expressible, not left out as a stateful
\* shortcut
IsRendered(term) ==
  /\ ~term.stateless_reply
  /\ term.option \cap {"established", "tcp-established"} = {}

\* C11: for every rendered term the rule's action element is allow when the
\* term's action is accept, deny when it is deny, and reset-client when it
\* is reject or reject-with-tcp-rst; a term that has only an action is
\* rendered, with that mapped action.
C11_ActionMapping ==
  p_pc = "done" =>
    \A ht \in PanPlaces :
      LET term == p_pol[ht[1]].terms[ht[2]] IN
        /\ \A j \in RulesNamed(term.name) :
             /\ term.action = "accept" => p_out.rules[j].action = "allow"
             /\ term.action = "deny" => p_out.rules[j].action = "deny"
             /\ term.action \in {"reject", "reject-with-tcp-rst"} =>
                  p_out.rules[j].action = "reset-client"
        /\ TermTokens(term) = {"name", "action"} =>
             Cardinality(RulesNamed(term.name)) = 1

\* a filter of a default reject term and a default deny term was rendered
C11_Witness ==
  /\ p_pc = "done"
  /\ Len(p_pol[1].terms) = 2
  /\ p_pol[1].terms[1].action = "reject"
  /\ TermTokens(p_pol[1].terms[1]) = {"name", "action"}
  /\ p_pol[1].terms[2].action = "deny"
  /\ TermTokens(p_pol[1].terms[2]) = {"name", "action"}
  /\ Len(p_out.rules) = 2
  /\ p_out.rules[1].action = "reset-client"
  /\ p_out.rules[2].action = "deny"

\* C12: for every rendered term, logging log-both yields log-start = yes
\* and log-end = yes; logging disable yields log-start = no and log-end =
\* no; each of the keywords true, True, syslog and local yields exactly one
\* log-end element, of value yes, and no log-start element.
C12_LoggingMapping ==
  p_pc = "done" =>
    \A ht \in PanPlaces :
      LET term == p_pol[ht[1]].terms[ht[2]] IN
        (term.logging # "" /\ IsRendered(term)) =>
          /\ Cardinality(RulesNamed(term.name)) = 1
          /\ term.logging = "log-both" =>
               /\ RuleOf(term).log_start = <<"yes">>
               /\ RuleOf(term).log_end = <<"yes">>
          /\ term.logging = "disable" =>
               /\ RuleOf(term).log_start = <<"no">>
               /\ RuleOf(term).log_end = <<"no">>
          /\ term.logging \in {"true", "True", "syslog", "local"} =>
               /\ RuleOf(term).log_start = <<>>
               /\ RuleOf(term).log_end = <<"yes">>

\* a filter of a syslog term and a log-both term was rendered
C12_Witness ==
  /\ p_pc = "done"
  /\ Len(p_pol[1].terms) = 2
  /\ p_pol[1].terms[1].logging = "syslog"
  /\ p_pol[1].terms[2].logging = "log-both"
  /\ Len(p_out.rules) = 2
  /\ p_out.rules[1].log_start = <<>>
  /\ p_out.rules[1].log_end = <<"yes">>
  /\ p_out.rules[2].log_start = <<"yes">>

DirsAbove(path) == {path[k] : k \in 1..(Len(path) - 1)}

\* C14: for every directory tree and every ignore_directories list, no
\* entry DescendRecursively returns lies under a directory whose name is in
\* ignore_directories, at any depth.
C14_IgnoredDirectories ==
  w_pc = "found" =>
    \A e \in w_files : DirsAbove(e.in_file) \cap w_ignore = {}

\* the policy files of the tree as the design describes them: files named
\* *.pol directly inside a directory pol that is reached from the base
\* through directories that are neither ignored nor themselves named pol
Policies ==
  {p \in w_fs :
     /\ Len(p) >= 2
     /\ EndsWith(p[Len(p)], ".pol")
     /\ p[Len(p) - 1] = "pol"
     /\ \A k \in 1..(Len(p) - 2) : p[k] # "pol" /\ p[k] \notin w_ignore}

\* C16: DescendRecursively returns exactly the files named *.pol that sit
\* directly inside a directory named pol reachable from the base directory
\* through non-ignored directories, never descending into the contents of a
\* pol directory, and each entry's out_dir is the output directory extended
\* by the path from the base directory to the parent of that pol directory.
C16_PolicyDiscovery ==
  w_pc = "found" =>
    w_files = {[in_file |-> p, out_dir |-> SubSeq(p, 1, Len(p) - 2)] :
                 p \in Policies}

(***************************************************************************)
(* Properties of the policy objects of one RenderFile call.                *)
(***************************************************************************)
\* the blocks of the chain whose variable holds a policy
Copies == {k \in Slots : c_var[k] # NoCopy}

\* the term objects the list of policy object r holds
TermsOf(r) == {c_obj[r][j] : j \in 1..Len(c_obj[r])}

C21_State ==
  c_pc \in {"copy", "render", "done", "raised"} =>
    /\ Content(c_obj, c_term, Pol) = c_conf
    /\ c_pc # "copy" =>
         Copies = {k \in Slots : RenderOrder[k].platform \in c_platforms}
    /\ \A k \in Copies :
         /\ c_var[k] # Pol
         /\ TermsOf(c_var[k]) \cap TermsOf(Pol) = {}
         /\ \A m \in Copies \ {k} :
              /\ c_var[m] # c_var[k]
              /\ TermsOf(c_var[m]) \cap TermsOf(c_var[k]) = {}
         /\ k \notin DOMAIN c_out => Content(c_obj, c_term, c_var[k]) = c_conf
    /\ \A k \in DOMAIN c_out : c_out[k] = Generate(k, c_conf)

C21_Step ==
  (c_pc = "render" /\ c_slot' # c_slot) =>
    \A r \in DOMAIN c_obj \ {c_var[c_slot']} :
      Content(c_obj', c_term', r) = Content(c_obj, c_term, r)

\* C21: every platform of the headers that has a backend gets a policy
\* object of its own (pcap two, accept and deny), sharing no term object
\* with pol or with another copy; whatever a backend leaves in its policy,
\* pol and the policies of the other backends hold what was parsed, and
\* the text a backend renders is that of the parsed policy, whichever
\* other platforms the headers carry.
C21_DeepCopyIsolation == [](C21_State) /\ [][C21_Step]_vars

\* juniper and the two pcap generators have rendered and each has left
\* other values in its policy than it was handed
C21_Witness ==
  /\ c_pc = "done"
  /\ DOMAIN c_out = {1, 14, 15}
  /\ \A k \in {1, 14, 15} : Content(c_obj, c_term, c_var[k]) # c_conf
  /\ Content(c_obj, c_term, Pol) = c_conf
  /\ Len(c_conf) = MaxPolTerms

====
